---- MODULE Spec2Model ----
(***************************************************************************)
(* Model of the R interface to pxlib (src/src/interface.c): the lifecycle  *)
(* of the pxdoc_t external pointer (open, close, finalizer), the entry     *)
(* points that require a live handle, the column allocation and record     *)
(* loop of pxlib_get_data_c, and the value decoder px_to_sexp.             *)
(*                                                                         *)
(* pxlib itself (PX_new, PX_open_file, PX_delete, PX_retrieve_record ...)  *)
(* and R's runtime are collaborators: their outcomes are inputs chosen     *)
(* with \E, their calls are recorded in the per-call log `last`.           *)
(***************************************************************************)
EXTENDS Integers, Sequences, FiniteSets, TLC

VARIABLES
    docs,       \* pxdoc_t objects made by PX_new, indexed by their address 1..Len(docs)
    handles,    \* R external pointers made by pxlib_open_file_c
    last,       \* log of the most recent .Call: outcome, warnings, backend calls
    file,       \* the table the backend reads: record count, field descriptors, cell pattern
    gd,         \* locals of a running pxlib_get_data_c (pc, i, j, data_list, record_values)
    dec         \* input and output of one direct px_to_sexp application

vars == <<docs, handles, last, file, gd, dec>>

(***************************************************************************)
(* Bounds of the model.                                                    *)
(***************************************************************************)
MaxDocs == 2        \* PX_new calls in one behaviour
MaxRecords == 2     \* records of the table
MaxFields == 2      \* fields of the table
MaxSeed == 3        \* cell patterns of the table (see RawValue)

(***************************************************************************)
(* Program constants.                                                      *)
(***************************************************************************)
PARADOX_DATE_UPPER_BOUND == 3000000
R_EPOCH_OFFSET_DAYS == 719163
SECONDS_PER_DAY == 86400
MS_PER_SECOND == 1000

NULL == 0           \* the cleared address of an external pointer

(***************************************************************************)
(* C doubles.  TLC's integers are 32 bits wide and the timestamp epoch     *)
(* 719163 * 86400 * 1000 is not, so a double is kept exactly, in two limbs *)
(* and thousandths: the value of [hi, lo, frac] is                         *)
(*     hi * 86400 + lo + frac / 1000,  0 <= lo < 86400, 0 <= frac < 1000.  *)
(* The value is negative iff hi < 0.  Rounding of the 53-bit mantissa is   *)
(* not modelled: every value used is a multiple of 1/1000 below 2^53/1000. *)
(***************************************************************************)
Double(n) ==            \* (double) n, for an integer n
    [hi |-> n \div SECONDS_PER_DAY, lo |-> n % SECONDS_PER_DAY, frac |-> 0]

DoubleLimbs(h, l) ==    \* the integer-valued double h * 86400 + l
    [hi |-> h + (l \div SECONDS_PER_DAY), lo |-> l % SECONDS_PER_DAY, frac |-> 0]

DoubleSub(x, y) ==      \* x - y
    LET f  == x.frac - y.frac
        bf == IF f < 0 THEN 1 ELSE 0
        l  == x.lo - y.lo - bf
        bl == IF l < 0 THEN 1 ELSE 0
    IN  [hi |-> x.hi - y.hi - bl,
         lo |-> l + bl * SECONDS_PER_DAY,
         frac |-> f + bf * MS_PER_SECOND]

DoubleDiv1000(x) ==     \* x / 1000.0, for an integer-valued x
    LET a == x.hi \div MS_PER_SECOND
        b == x.hi % MS_PER_SECOND
        w == b * SECONDS_PER_DAY + x.lo
    IN  [hi |-> a, lo |-> w \div MS_PER_SECOND, frac |-> w % MS_PER_SECOND]

DoubleMul86400(n) ==    \* (double) n * 86400.0
    [hi |-> n, lo |-> 0, frac |-> 0]

DoubleIsZero(x) == x.hi = 0 /\ x.lo = 0 /\ x.frac = 0
DoubleNegative(x) == x.hi < 0

(***************************************************************************)
(* Backend buffers and raw values (pxval_t).  A buffer pointer is either   *)
(* NULL or points to bytes; a C string ends at its first zero byte (the    *)
(* terminator follows the bytes when none of them is zero).                *)
(***************************************************************************)
NullBuf == [null |-> TRUE, bytes |-> <<>>]
Buf(b) == [null |-> FALSE, bytes |-> b]

RECURSIVE CStr(_)
CStr(b) ==              \* the characters strlen/strcmp/mkChar see
    IF b = <<>> \/ Head(b) = 0 THEN <<>> ELSE <<Head(b)>> \o CStr(Tail(b))

HasNul(b) == \E k \in 1..Len(b) : b[k] = 0

\* "-??????????????????????????.??????": '-' 26 x '?' '.' 6 x '?'
BCD_BLANK == <<45>> \o [k \in 1..26 |-> 63] \o <<46>> \o [k \in 1..6 |-> 63]

PxVal(isnull, lval, dval, val, len) ==
    [isnull |-> isnull, lval |-> lval, dval |-> dval, val |-> val, len |-> len]

NullVal == PxVal(TRUE, 0, Double(0), NullBuf, 0)
LVal(n) == PxVal(FALSE, n, Double(0), NullBuf, 0)
DVal(x) == PxVal(FALSE, 0, x, NullBuf, 0)
StrVal(b) == PxVal(FALSE, 0, Double(0), Buf(b), Len(b))
StrNullPtr == PxVal(FALSE, 0, Double(0), NullBuf, 0)

(***************************************************************************)
(* R values (SEXP).  One record shape for all of them.                     *)
(***************************************************************************)
Sexp(t, na, i, r, b) == [t |-> t, na |-> na, i |-> i, r |-> r, b |-> b]

R_NilValue == Sexp("NILSXP", FALSE, 0, Double(0), <<>>)
NA_STRING == Sexp("CHARSXP", TRUE, 0, Double(0), <<>>)
NA_INTEGER == Sexp("INTSXP", TRUE, 0, Double(0), <<>>)
NA_REAL == Sexp("REALSXP", TRUE, 0, Double(0), <<>>)
NA_LOGICAL == Sexp("LGLSXP", TRUE, 0, Double(0), <<>>)
CharSxp(b) == Sexp("CHARSXP", FALSE, 0, Double(0), b)
RawSxp(b) == Sexp("RAWSXP", FALSE, 0, Double(0), b)
ScalarInteger(n) == Sexp("INTSXP", FALSE, n, Double(0), <<>>)
ScalarReal(x) == Sexp("REALSXP", FALSE, 0, x, <<>>)
ScalarLogical(n) == Sexp("LGLSXP", FALSE, IF n = 0 THEN 0 ELSE 1, Double(0), <<>>)
Rf_isNull(s) == s.t = "NILSXP"

(***************************************************************************)
(* Field type codes (px_ftype).  "pxfUnrecognized" stands for every code   *)
(* that is none of the pxf* cases of the two switch statements.            *)
(***************************************************************************)
AllFieldTypes ==
    << "pxfAlpha", "pxfDate", "pxfShort", "pxfLong", "pxfCurrency", "pxfNumber",
       "pxfLogical", "pxfMemoBLOb", "pxfBLOb", "pxfFmtMemoBLOb", "pxfOLE",
       "pxfGraphic", "pxfTime", "pxfTimestamp", "pxfAutoInc", "pxfBCD", "pxfBytes",
       "pxfUnrecognized" >>

FieldTypes == {AllFieldTypes[k] : k \in 1..Len(AllFieldTypes)}

(***************************************************************************)
(* px_to_sexp.  The result records the SEXP returned, how many times       *)
(* pxdoc->free was called on val->value.str.val, whether Rf_warning was    *)
(* called, and whether the call left through an R error instead of         *)
(* returning (mkCharLen raises "embedded nul in string" when one of the    *)
(* len bytes is zero; the statements after it are then not executed).      *)
(***************************************************************************)
Decoded(r, frees, warned, raised) ==
    [r |-> r, frees |-> frees, warned |-> warned, raised |-> raised]

mkCharLen_then_free(val) ==
    LET b == SubSeq(val.val.bytes, 1, val.len)
    IN  IF HasNul(b) THEN Decoded(R_NilValue, 0, FALSE, TRUE)
        ELSE Decoded(CharSxp(b), 1, FALSE, FALSE)

px_to_sexp_alpha(val) ==
    IF val.val.null THEN Decoded(NA_STRING, 0, FALSE, FALSE)
    ELSE Decoded(CharSxp(CStr(val.val.bytes)), 1, FALSE, FALSE)

px_to_sexp_bcd(val) ==
    IF CStr(val.val.bytes) = BCD_BLANK THEN Decoded(R_NilValue, 1, FALSE, FALSE)
    ELSE Decoded(CharSxp(CStr(val.val.bytes)), 1, FALSE, FALSE)

px_to_sexp_memo(val) ==
    IF val.val.null THEN Decoded(R_NilValue, 0, FALSE, FALSE)
    ELSE mkCharLen_then_free(val)

px_to_sexp_bytes(val) == mkCharLen_then_free(val)

px_to_sexp_blob(val) ==
    IF val.len = 0
    THEN Decoded(R_NilValue, IF val.val.null THEN 0 ELSE 1, FALSE, FALSE)
    ELSE Decoded(RawSxp(SubSeq(val.val.bytes, 1, val.len)), 1, FALSE, FALSE)

\* Mutant: the upper bound itself is treated as out of range.
px_to_sexp_date_bound_excluded(val) ==
    IF val.lval <= 0 \/ val.lval >= PARADOX_DATE_UPPER_BOUND
    THEN Decoded(R_NilValue, 0, FALSE, FALSE)
    ELSE Decoded(ScalarReal(DoubleSub(Double(val.lval), Double(R_EPOCH_OFFSET_DAYS))),
                 0, FALSE, FALSE)

px_to_sexp_date(val) ==
    LET date_val == val.lval
    IN  IF date_val <= 0 \/ date_val > PARADOX_DATE_UPPER_BOUND
        THEN Decoded(R_NilValue, 0, FALSE, FALSE)
        ELSE Decoded(ScalarReal(DoubleSub(Double(date_val), Double(R_EPOCH_OFFSET_DAYS))),
                     0, FALSE, FALSE)

px_to_sexp_time(val) ==
    IF val.lval < 0 THEN Decoded(R_NilValue, 0, FALSE, FALSE)
    ELSE Decoded(ScalarReal(DoubleDiv1000(Double(val.lval))), 0, FALSE, FALSE)

\* Mutant: a raw value of exactly zero is converted like any other.
px_to_sexp_timestamp_zero_kept(val) ==
    IF DoubleNegative(DoubleDiv1000(val.dval))
    THEN Decoded(R_NilValue, 0, FALSE, FALSE)
    ELSE Decoded(ScalarReal(DoubleSub(DoubleDiv1000(val.dval),
                                      DoubleMul86400(R_EPOCH_OFFSET_DAYS))),
                 0, FALSE, FALSE)

px_to_sexp_timestamp(val) ==
    LET paradox_seconds == DoubleDiv1000(val.dval)
    IN  IF DoubleIsZero(val.dval) \/ DoubleNegative(paradox_seconds)
        THEN Decoded(R_NilValue, 0, FALSE, FALSE)
        ELSE Decoded(ScalarReal(DoubleSub(paradox_seconds,
                                          DoubleMul86400(R_EPOCH_OFFSET_DAYS))),
                     0, FALSE, FALSE)

px_to_sexp_default(val) == Decoded(R_NilValue, 0, TRUE, FALSE)

px_to_sexp_switch(val, px_ftype) ==
    CASE px_ftype = "pxfAlpha" -> px_to_sexp_alpha(val)
      [] px_ftype = "pxfBCD" -> px_to_sexp_bcd(val)
      [] px_ftype \in {"pxfMemoBLOb", "pxfFmtMemoBLOb"} -> px_to_sexp_memo(val)
      [] px_ftype = "pxfBytes" -> px_to_sexp_bytes(val)
      [] px_ftype \in {"pxfBLOb", "pxfGraphic", "pxfOLE"} -> px_to_sexp_blob(val)
      [] px_ftype \in {"pxfShort", "pxfLong", "pxfAutoInc"} ->
            Decoded(ScalarInteger(val.lval), 0, FALSE, FALSE)
      [] px_ftype \in {"pxfNumber", "pxfCurrency"} ->
            Decoded(ScalarReal(val.dval), 0, FALSE, FALSE)
      [] px_ftype = "pxfLogical" -> Decoded(ScalarLogical(val.lval), 0, FALSE, FALSE)
      [] px_ftype = "pxfDate" -> px_to_sexp_date(val)
      [] px_ftype = "pxfTime" -> px_to_sexp_time(val)
      [] px_ftype = "pxfTimestamp" -> px_to_sexp_timestamp(val)
      [] OTHER -> px_to_sexp_default(val)

\* Mutant: the null flag is not looked at.
px_to_sexp_flag_ignored(val, px_ftype) == px_to_sexp_switch(val, px_ftype)

px_to_sexp(val, px_ftype) ==
    IF val.isnull THEN Decoded(R_NilValue, 0, FALSE, FALSE)
    ELSE px_to_sexp_switch(val, px_ftype)

(***************************************************************************)
(* The log of one call: how it ended, what it returned, the warnings it    *)
(* emitted and the backend functions it called.  `uaf` is set when the     *)
(* call handed the backend a document that PX_delete had already released; *)
(* `requested` holds the record indices passed to PX_retrieve_record and   *)
(* `input` the arguments and backend answers of an open_file call.         *)
(***************************************************************************)
NoValue == [kind |-> "none", n |-> 0, data |-> <<>>]
NoInput == [filename |-> "", password |-> "", new_ok |-> TRUE, open_status |-> 0,
            px_encryption |-> 0]
NilResult == [kind |-> "NULL", n |-> 0, data |-> <<>>]

Call(op, arg, raised, err, idx, value, warns, calls, uaf) ==
    [op |-> op, arg |-> arg, raised |-> raised, err |-> err, idx |-> idx,
     value |-> value, warns |-> warns, calls |-> calls, uaf |-> uaf,
     requested |-> {}, input |-> NoInput]

Raised(op, arg, err, calls) == Call(op, arg, TRUE, err, 0, NoValue, {}, calls, FALSE)
Returned(op, arg, value, warns, calls, uaf) ==
    Call(op, arg, FALSE, "", 0, value, warns, calls, uaf)

NoCall == Call("none", 0, FALSE, "", 0, NoValue, {}, {}, FALSE)

E_FILENAME == "Filename must be a single, non-NA character string."
E_PASSWORD == "Password must be NULL or a single, non-NA character string."
E_PXNEW == "Failed to allocate new pxdoc_t object via PX_new()."
E_PROTECTED == "File is password protected. Provide 'password' argument."
E_INCORRECT == "Incorrect password."
E_CLOSED == "The Paradox file connection is closed or invalid."
E_BLOBNAME == "BLOB filename must be a single, non-NA character string."
E_FIELDS == "Could not retrieve field definitions from Paradox file."
E_RECORD == "Failed to retrieve record #%d."
E_EMBEDDED_NUL == "embedded nul in string"
W_OPEN == "pxlib failed to open file"
W_BLOB == "pxlib failed to set BLOB file"
W_FTYPE == "Unhandled Paradox field type encountered"

(***************************************************************************)
(* The backend's documents.  PX_delete on an address counts the release;   *)
(* a document is live while it has been created and not deleted.           *)
(***************************************************************************)
NewDoc == [state |-> "new", deletes |-> 0,
           head |-> [px_encryption |-> 0, px_doscodepage |-> 0]]

ValidDoc(ds, pxdoc) == pxdoc \in DOMAIN ds
Released(ds, pxdoc) == ValidDoc(ds, pxdoc) /\ ds[pxdoc].deletes > 0

PX_delete(ds, pxdoc) ==
    IF ValidDoc(ds, pxdoc) THEN [ds EXCEPT ![pxdoc].deletes = @ + 1] ELSE ds

PX_close(ds, pxdoc) ==
    IF ValidDoc(ds, pxdoc)
    THEN [ds EXCEPT ![pxdoc].state = "closed"]
    ELSE ds

PX_open_file(ds, pxdoc, head) ==
    [ds EXCEPT ![pxdoc].state = "open", ![pxdoc].head = head]

LiveDocs(ds) == {d \in DOMAIN ds : ds[d].deletes = 0}

(***************************************************************************)
(* External pointers.  `addr` is R_ExternalPtrAddr; `doc` remembers the    *)
(* document the pointer was made for (history, not read by the program).   *)
(* Argument 0 stands for an R value that is not an external pointer.       *)
(***************************************************************************)
R_MakeExternalPtr(pxdoc) ==
    [addr |-> pxdoc, doc |-> pxdoc, finalizer |-> FALSE, finalized |-> FALSE]

R_RegisterCFinalizerEx(extptr) == [extptr EXCEPT !.finalizer = TRUE]

\* Mutant: closing one handle clears the address of every handle.
R_ClearExternalPtr_all(hs, h) == [k \in DOMAIN hs |-> [hs[k] EXCEPT !.addr = NULL]]

\* Mutant: the address is left in place after PX_delete.
R_ClearExternalPtr_kept(hs, h) == hs

R_ClearExternalPtr(hs, h) == [hs EXCEPT ![h].addr = NULL]

IsExtPtr(hs, arg) == arg \in DOMAIN hs

\* Mutant: only the type of the argument is checked, not its address.
check_pxdoc_ptr_type_only(hs, arg) == IsExtPtr(hs, arg)

check_pxdoc_ptr(hs, arg) == IsExtPtr(hs, arg) /\ hs[arg].addr # NULL

HandleArgs == 0..Len(handles)

(***************************************************************************)
(* pxlib_open_file_c                                                       *)
(***************************************************************************)
NA == "NA"                      \* an argument that is not a single non-NA string
NoPassword == "NULL"            \* password_sexp = R_NilValue
Filenames == {NA, "table.db"}
Passwords == {"pw1", "pw2"}
PasswordArgs == {NoPassword, NA} \cup Passwords

\* The checksum of a password: a fixed function of the password.  It is not
\* negative, so the cast (unsigned long)checksum keeps its value.
px_passwd_checksum(password) == IF password = "pw1" THEN 4660 ELSE 22136

\* The headers of the files on disk: a plain one and one encrypted with "pw1".
Headers ==
    { [px_encryption |-> 0, px_doscodepage |-> 866],
      [px_encryption |-> px_passwd_checksum("pw1"), px_doscodepage |-> 0] }

\* Mutant: the document is not deleted when PX_open_file fails.
open_failed_leak(ds, pxdoc) == ds

open_failed(ds, pxdoc) == PX_delete(ds, pxdoc)

\* Mutant: any password is accepted for an encrypted file.
open_auth_any_password(password, encryption) ==
    IF encryption # 0 /\ password = NoPassword THEN E_PROTECTED ELSE "ok"

open_auth(password, encryption) ==
    IF encryption # 0
    THEN IF password = NoPassword THEN E_PROTECTED
         ELSE IF px_passwd_checksum(password) # encryption THEN E_INCORRECT
         ELSE "ok"
    ELSE "ok"

auth_teardown(ds, pxdoc) == PX_delete(PX_close(ds, pxdoc), pxdoc)

open_file_outcome(filename, password, new_ok, open_status, head) ==
    LET same(l) == [docs |-> docs, handles |-> handles, last |-> l]
        pxdoc == Len(docs) + 1
        created == Append(docs, NewDoc)
        opened == PX_open_file(created, pxdoc, head)
        auth == open_auth(password, opened[pxdoc].head.px_encryption)
    IN  IF filename = NA THEN same(Raised("open_file", 0, E_FILENAME, {}))
        ELSE IF password = NA THEN same(Raised("open_file", 0, E_PASSWORD, {}))
        ELSE IF ~new_ok THEN same(Raised("open_file", 0, E_PXNEW, {"PX_new"}))
        ELSE IF open_status # 0
        THEN [docs |-> open_failed(created, pxdoc), handles |-> handles,
              last |-> Returned("open_file", 0, NilResult, {W_OPEN},
                                {"PX_new", "PX_open_file", "PX_delete"}, FALSE)]
        ELSE IF auth # "ok"
        THEN [docs |-> auth_teardown(opened, pxdoc), handles |-> handles,
              last |-> Raised("open_file", 0, auth,
                              {"PX_new", "PX_open_file", "px_head", "PX_close", "PX_delete"})]
        ELSE [docs |-> opened,
              handles |-> Append(handles, R_RegisterCFinalizerEx(R_MakeExternalPtr(pxdoc))),
              last |-> Returned("open_file", 0,
                                [kind |-> "extptr", n |-> Len(handles) + 1, data |-> <<>>],
                                {}, {"PX_new", "PX_open_file", "px_head"}, FALSE)]

GdIdle ==
    [pc |-> "idle", arg |-> 0, num_records |-> 0, num_fields |-> 0, i |-> 0, j |-> 0,
     data_list |-> <<>>, record_values |-> <<>>, r_val |-> R_NilValue]

\* No get_data call is running: none was made, the last one returned, or it
\* left through an R error ("raised": what it had not released stays allocated).
Idle == gd.pc \in {"idle", "raised"}

pxlib_open_file_c ==
    /\ Idle
    /\ \E filename \in Filenames, password \in PasswordArgs :
       \E new_ok \in IF NA \in {filename, password} THEN {TRUE} ELSE BOOLEAN :
       \E open_status \in IF NA \in {filename, password} \/ ~new_ok THEN {0} ELSE {0, -1} :
       \E head \in IF NA \in {filename, password} \/ ~new_ok
                   THEN {CHOOSE h \in Headers : TRUE} ELSE Headers :
          LET out == open_file_outcome(filename, password, new_ok, open_status, head)
          IN  /\ Len(out.docs) <= MaxDocs
              /\ docs' = out.docs
              /\ handles' = out.handles
              /\ last' = [out.last EXCEPT !.input =
                            [filename |-> filename, password |-> password,
                             new_ok |-> new_ok, open_status |-> open_status,
                             px_encryption |-> head.px_encryption]]
    /\ UNCHANGED <<file, gd, dec>>

(***************************************************************************)
(* pxlib_close_file_c and pxdoc_finalizer                                  *)
(***************************************************************************)
close_file_outcome(arg) ==
    IF ~check_pxdoc_ptr(handles, arg)
    THEN [docs |-> docs, handles |-> handles,
          last |-> Raised("close_file", arg, E_CLOSED, {})]
    ELSE LET pxdoc == handles[arg].addr
         IN  [docs |-> PX_delete(docs, pxdoc),
              handles |-> R_ClearExternalPtr(handles, arg),
              last |-> Returned("close_file", arg, NilResult, {}, {"PX_delete"},
                                Released(docs, pxdoc))]

pxlib_close_file_c ==
    /\ Idle
    /\ \E arg \in HandleArgs :
          LET out == close_file_outcome(arg)
          IN  /\ docs' = out.docs
              /\ handles' = out.handles
              /\ last' = out.last
    /\ UNCHANGED <<file, gd, dec>>

finalizer_outcome(h) ==
    LET pxdoc == handles[h].addr
        done == [handles EXCEPT ![h].finalized = TRUE]
    IN  IF pxdoc # NULL
        THEN [docs |-> PX_delete(docs, pxdoc),
              handles |-> R_ClearExternalPtr(done, h),
              last |-> Returned("finalizer", h, NoValue, {}, {"PX_delete"},
                                Released(docs, pxdoc))]
        ELSE [docs |-> docs, handles |-> done,
              last |-> Returned("finalizer", h, NoValue, {}, {}, FALSE)]

\* R runs a registered finalizer once, when the pointer's owner is gone or at exit.
pxdoc_finalizer ==
    /\ Idle
    /\ \E h \in DOMAIN handles :
          /\ handles[h].finalizer
          /\ ~handles[h].finalized
          /\ LET out == finalizer_outcome(h)
             IN  /\ docs' = out.docs
                 /\ handles' = out.handles
                 /\ last' = out.last
    /\ UNCHANGED <<file, gd, dec>>

(***************************************************************************)
(* pxlib_get_codepage_c, pxlib_set_blob_file_c, pxlib_get_metadata_c       *)
(***************************************************************************)
get_codepage_outcome(arg) ==
    IF ~check_pxdoc_ptr(handles, arg) THEN Raised("get_codepage", arg, E_CLOSED, {})
    ELSE LET pxdoc == handles[arg].addr
             codepage == IF ValidDoc(docs, pxdoc) THEN docs[pxdoc].head.px_doscodepage
                         ELSE 0
         IN  Returned("get_codepage", arg,
                      IF codepage > 0
                      THEN [kind |-> "CP", n |-> codepage, data |-> <<>>]
                      ELSE NilResult,
                      {}, {"px_head"}, Released(docs, pxdoc))

pxlib_get_codepage_c ==
    /\ Idle
    /\ \E arg \in HandleArgs : last' = get_codepage_outcome(arg)
    /\ UNCHANGED <<docs, handles, file, gd, dec>>

BlobFilenames == {NA, "table.mb"}

set_blob_file_outcome(arg, blob_filename, status) ==
    IF ~check_pxdoc_ptr(handles, arg) THEN Raised("set_blob_file", arg, E_CLOSED, {})
    ELSE IF blob_filename = NA THEN Raised("set_blob_file", arg, E_BLOBNAME, {})
    ELSE LET pxdoc == handles[arg].addr
         IN  IF status = 0
             THEN Returned("set_blob_file", arg, [kind |-> "lgl", n |-> 1, data |-> <<>>],
                           {}, {"PX_set_blob_file"}, Released(docs, pxdoc))
             ELSE Returned("set_blob_file", arg, [kind |-> "lgl", n |-> 0, data |-> <<>>],
                           {W_BLOB}, {"PX_set_blob_file"}, Released(docs, pxdoc))

pxlib_set_blob_file_c ==
    /\ Idle
    /\ \E arg \in HandleArgs, blob_filename \in BlobFilenames :
       \E status \in IF blob_filename = NA THEN {0} ELSE {0, -1} :
          last' = set_blob_file_outcome(arg, blob_filename, status)
    /\ UNCHANGED <<docs, handles, file, gd, dec>>

get_metadata_outcome(arg, fields_ok) ==
    IF ~check_pxdoc_ptr(handles, arg) THEN Raised("get_metadata", arg, E_CLOSED, {})
    ELSE LET pxdoc == handles[arg].addr
             num_fields == Len(file.fields)
             calls == {"PX_get_num_fields", "PX_get_fields"}
         IN  IF ~fields_ok /\ num_fields > 0
             THEN Raised("get_metadata", arg, E_FIELDS, calls)
             ELSE Returned("get_metadata", arg,
                           [kind |-> "list", n |-> num_fields,
                            data |-> [num_records |-> file.num_records,
                                      num_fields |-> num_fields,
                                      fields |-> file.fields]],
                           {}, calls \cup {"PX_get_num_records"}, Released(docs, pxdoc))

pxlib_get_metadata_c ==
    /\ Idle
    /\ \E arg \in HandleArgs, fields_ok \in BOOLEAN :
          last' = get_metadata_outcome(arg, fields_ok)
    /\ UNCHANGED <<docs, handles, file, gd, dec>>

(***************************************************************************)
(* The table behind the documents: what PX_get_num_records, PX_get_fields  *)
(* and PX_retrieve_record answer.  The fields are a window of the type     *)
(* list; the raw value of record i, field j is taken from the values the   *)
(* backend can produce for the field's type, by the table's cell pattern.  *)
(***************************************************************************)
FieldDesc(start, j) ==
    LET px_ftype == AllFieldTypes[((start + j - 2) % Len(AllFieldTypes)) + 1]
    IN  [px_fname |-> <<px_ftype, j>>, px_ftype |-> px_ftype, px_flen |-> 4]

Schema(start, n) == [j \in 1..n |-> FieldDesc(start, j)]

Table(num_records, start, n, seed) ==
    [num_records |-> num_records, fields |-> Schema(start, n), seed |-> seed]

EpochMs == DoubleLimbs(R_EPOCH_OFFSET_DAYS * MS_PER_SECOND, 0)

RawValues(px_ftype) ==
    CASE px_ftype = "pxfAlpha" ->
            <<NullVal, StrVal(<<65, 66>>), StrNullPtr, StrVal(<<>>)>>
      [] px_ftype = "pxfBCD" ->
            <<NullVal, StrVal(BCD_BLANK), StrVal(<<49, 46, 53>>)>>
      [] px_ftype \in {"pxfMemoBLOb", "pxfFmtMemoBLOb"} ->
            <<NullVal, StrVal(<<77, 69>>), StrNullPtr, StrVal(<<77, 0, 69>>)>>
      [] px_ftype = "pxfBytes" ->
            <<NullVal, StrVal(<<1, 2>>), StrVal(<<1, 0, 2>>)>>
      [] px_ftype \in {"pxfBLOb", "pxfGraphic", "pxfOLE"} ->
            <<NullVal, StrVal(<<7, 0, 9>>), StrVal(<<>>), StrNullPtr>>
      [] px_ftype \in {"pxfShort", "pxfLong", "pxfAutoInc"} ->
            <<NullVal, LVal(5), LVal(0), LVal(-3)>>
      [] px_ftype \in {"pxfNumber", "pxfCurrency"} ->
            <<NullVal, DVal(Double(2)), DVal(Double(0)), DVal(Double(-1))>>
      [] px_ftype = "pxfLogical" ->
            <<NullVal, LVal(1), LVal(0)>>
      [] px_ftype = "pxfDate" ->
            <<NullVal, LVal(R_EPOCH_OFFSET_DAYS), LVal(0),
              LVal(PARADOX_DATE_UPPER_BOUND + 1)>>
      [] px_ftype = "pxfTime" ->
            <<NullVal, LVal(3600000), LVal(-1), LVal(0)>>
      [] px_ftype = "pxfTimestamp" ->
            <<NullVal, DVal(EpochMs), DVal(Double(0)), DVal(Double(-1000))>>
      [] OTHER ->
            <<NullVal, StrVal(<<88>>), LVal(5), [StrVal(<<88>>) EXCEPT !.isnull = TRUE]>>

RawValue(seed, i, j, px_ftype) ==
    LET vs == RawValues(px_ftype) IN vs[((seed + i + j) % Len(vs)) + 1]

PX_retrieve_record(i) ==
    [j \in 1..Len(file.fields) |->
        [val |-> RawValue(file.seed, i, j - 1, file.fields[j].px_ftype),
         decoded |-> FALSE, frees |-> 0, freed |-> FALSE]]

(***************************************************************************)
(* pxlib_get_data_c.  Step 1: one column per field.                        *)
(***************************************************************************)
\* Mutant: inline binary fields get a character column.
column_type_bytes_as_text(px_ftype) ==
    CASE px_ftype \in {"pxfBLOb", "pxfOLE", "pxfGraphic"} -> "VECSXP"
      [] px_ftype \in {"pxfShort", "pxfLong", "pxfAutoInc"} -> "INTSXP"
      [] px_ftype \in {"pxfNumber", "pxfCurrency", "pxfDate", "pxfTime", "pxfTimestamp"} ->
            "REALSXP"
      [] px_ftype = "pxfLogical" -> "LGLSXP"
      [] OTHER -> "STRSXP"

column_type(px_ftype) ==
    CASE px_ftype \in {"pxfBLOb", "pxfOLE", "pxfGraphic", "pxfBytes"} -> "VECSXP"
      [] px_ftype \in {"pxfShort", "pxfLong", "pxfAutoInc"} -> "INTSXP"
      [] px_ftype \in {"pxfNumber", "pxfCurrency", "pxfDate", "pxfTime", "pxfTimestamp"} ->
            "REALSXP"
      [] px_ftype = "pxfLogical" -> "LGLSXP"
      [] OTHER -> "STRSXP"

\* allocVector: a list starts as NULLs, a character vector as "", the rest is not initialised
Uninitialised == Sexp("uninitialised", FALSE, 0, Double(0), <<>>)

allocVector(type, n) ==
    [t |-> type,
     cells |-> [k \in 1..n |-> CASE type = "VECSXP" -> R_NilValue
                                 [] type = "STRSXP" -> CharSxp(<<>>)
                                 [] OTHER -> Uninitialised],
     class |-> <<>>, attr |-> <<>>]

allocate_columns(fields, num_records) ==
    [j \in 1..Len(fields) |-> allocVector(column_type(fields[j].px_ftype), num_records)]

asInteger(r) == Sexp("INTSXP", r.na, r.i, Double(0), <<>>)
asReal(r) == Sexp("REALSXP", r.na, 0, r.r, <<>>)
asLogical(r) == Sexp("LGLSXP", r.na, r.i, Double(0), <<>>)

\* Step 2, the switch on TYPEOF(column): the element stored at position i
stored_element(type, r_val) ==
    CASE type = "VECSXP" -> r_val
      [] type = "STRSXP" -> IF Rf_isNull(r_val) THEN NA_STRING ELSE r_val
      [] type = "INTSXP" -> IF Rf_isNull(r_val) THEN NA_INTEGER ELSE asInteger(r_val)
      [] type = "REALSXP" -> IF Rf_isNull(r_val) THEN NA_REAL ELSE asReal(r_val)
      [] type = "LGLSXP" -> IF Rf_isNull(r_val) THEN NA_LOGICAL ELSE asLogical(r_val)

store(column, i, r_val) ==
    [column EXCEPT !.cells[i + 1] = stored_element(column.t, r_val)]

\* Step 4: the S3 class of a date/time column
column_class(px_ftype) ==
    CASE px_ftype = "pxfDate" -> <<"Date">>
      [] px_ftype = "pxfTime" -> <<"hms", "difftime">>
      [] px_ftype = "pxfTimestamp" -> <<"POSIXct", "POSIXt">>
      [] OTHER -> <<>>

column_attr(px_ftype) ==
    CASE px_ftype = "pxfTime" -> <<"units", "secs">>
      [] px_ftype = "pxfTimestamp" -> <<"tzone", "UTC">>
      [] OTHER -> <<>>

\* Entry: the handle check, the counts, the field descriptors and Step 1.
GetDataBegin ==
    /\ Idle
    /\ \E arg \in HandleArgs, fields_ok \in BOOLEAN :
          IF ~check_pxdoc_ptr(handles, arg)
          THEN /\ last' = Raised("get_data", arg, E_CLOSED, {})
               /\ gd' = GdIdle
          ELSE LET calls == {"PX_get_num_records", "PX_get_num_fields"}
                   uaf == Released(docs, handles[arg].addr)
               IN  IF file.num_records <= 0
                   THEN /\ last' = Returned("get_data", arg, NilResult, {}, calls, uaf)
                        /\ gd' = GdIdle
                   ELSE IF ~fields_ok
                   THEN /\ last' = Raised("get_data", arg, E_FIELDS,
                                          calls \cup {"PX_get_fields"})
                        /\ gd' = GdIdle
                   ELSE /\ last' = Call("get_data", arg, FALSE, "", 0, NoValue, {},
                                        calls \cup {"PX_get_fields"}, uaf)
                        /\ gd' = [GdIdle EXCEPT
                                    !.pc = "record", !.arg = arg,
                                    !.num_records = file.num_records,
                                    !.num_fields = Len(file.fields),
                                    !.data_list = allocate_columns(file.fields,
                                                                   file.num_records)]
    /\ UNCHANGED <<docs, handles, file, dec>>

\* Mutant: the error reports the 0-based position of the record.
retrieve_failed_zero_based(l, i) ==
    [l EXCEPT !.raised = TRUE, !.err = E_RECORD, !.idx = i,
              !.calls = @ \cup {"PX_retrieve_record"},
              !.requested = @ \cup {i}]

\* record_values == NULL: data_list is unprotected and Rf_error leaves the call
retrieve_failed(l, i) ==
    [l EXCEPT !.raised = TRUE, !.err = E_RECORD, !.idx = i + 1,
              !.calls = @ \cup {"PX_retrieve_record"},
              !.requested = @ \cup {i}]

\* Step 2, outer loop: PX_retrieve_record(pxdoc, i)
GetDataRetrieve ==
    /\ gd.pc = "record"
    /\ gd.i < gd.num_records
    /\ \E retrieved \in BOOLEAN :
          IF ~retrieved
          THEN /\ last' = retrieve_failed(last, gd.i)
               /\ gd' = GdIdle
          ELSE /\ last' = [last EXCEPT !.calls = @ \cup {"PX_retrieve_record"},
                                        !.requested = @ \cup {gd.i}]
               /\ gd' = [gd EXCEPT !.pc = "cell", !.j = 0,
                                   !.record_values = PX_retrieve_record(gd.i)]
    /\ UNCHANGED <<docs, handles, file, dec>>

\* Step 2, inner loop body: px_to_sexp, the store into the column, FREE_PXVAL
GetDataCell ==
    /\ gd.pc = "cell"
    /\ gd.j < gd.num_fields
    /\ LET j == gd.j + 1
           out == px_to_sexp(gd.record_values[j].val, file.fields[j].px_ftype)
           warns == last.warns \cup (IF out.warned THEN {W_FTYPE} ELSE {})
       IN  IF out.raised
           THEN /\ last' = [last EXCEPT !.raised = TRUE, !.err = E_EMBEDDED_NUL,
                                         !.warns = warns]
                /\ gd' = [gd EXCEPT !.pc = "raised",
                                    !.record_values[j].decoded = TRUE,
                                    !.record_values[j].frees = @ + out.frees]
           ELSE /\ last' = [last EXCEPT !.warns = warns]
                /\ gd' = [gd EXCEPT !.j = j, !.r_val = out.r,
                                    !.data_list[j] = store(@, gd.i, out.r),
                                    !.record_values[j].decoded = TRUE,
                                    !.record_values[j].frees = @ + out.frees,
                                    !.record_values[j].freed = TRUE]
    /\ UNCHANGED <<docs, handles, file, dec>>

\* Step 2, end of the outer loop body: pxdoc->free(pxdoc, record_values)
GetDataRecordEnd ==
    /\ gd.pc = "cell"
    /\ gd.j = gd.num_fields
    /\ gd' = [gd EXCEPT !.pc = "record", !.i = @ + 1, !.j = 0, !.record_values = <<>>]
    /\ last' = [last EXCEPT !.calls = @ \cup {"free"}]
    /\ UNCHANGED <<docs, handles, file, dec>>

\* Steps 3 and 4 and the return of data_list
GetDataFinish ==
    /\ gd.pc = "record"
    /\ gd.i = gd.num_records
    /\ LET col_names == [j \in 1..gd.num_fields |-> file.fields[j].px_fname]
           columns == [j \in 1..gd.num_fields |->
                          [gd.data_list[j] EXCEPT
                              !.class = column_class(file.fields[j].px_ftype),
                              !.attr = column_attr(file.fields[j].px_ftype)]]
       IN  last' = [last EXCEPT
                      !.value = [kind |-> "dataset", n |-> gd.num_fields,
                                 data |-> [columns |-> columns, names |-> col_names]]]
    /\ gd' = GdIdle
    /\ UNCHANGED <<docs, handles, file, dec>>

(***************************************************************************)
(* One direct application of px_to_sexp to a raw value.                    *)
(***************************************************************************)
DecIdle == [px_ftype |-> "pxfAlpha", val |-> NullVal, done |-> FALSE,
            out |-> Decoded(R_NilValue, 0, FALSE, FALSE)]

Decode ==
    /\ ~dec.done
    /\ dec' = [dec EXCEPT !.done = TRUE, !.out = px_to_sexp(dec.val, dec.px_ftype)]
    /\ UNCHANGED <<docs, handles, last, file, gd>>

(***************************************************************************)
(* Specifications.                                                         *)
(***************************************************************************)
Init ==
    /\ docs = <<>>
    /\ handles = <<>>
    /\ last = NoCall
    /\ file \in {Table(0, 1, 0, 0), Table(1, 3, 1, 1)}
    /\ gd = GdIdle
    /\ dec = DecIdle

Next ==
    \/ pxlib_open_file_c
    \/ pxlib_close_file_c
    \/ pxdoc_finalizer
    \/ pxlib_get_codepage_c
    \/ pxlib_set_blob_file_c
    \/ pxlib_get_metadata_c
    \/ GetDataBegin
    \/ GetDataRetrieve
    \/ GetDataCell
    \/ GetDataRecordEnd
    \/ GetDataFinish

Spec == Init /\ [][Next]_vars

(***************************************************************************)
(* pxlib_get_data_c on a live handle, over a family of tables.  The        *)
(* initial state is the one pxlib_open_file_c leaves after opening a plain *)
(* file.                                                                   *)
(***************************************************************************)
PlainHeader == [px_encryption |-> 0, px_doscodepage |-> 866]

DataTables ==
    {Table(num_records, start, n, seed) :
        num_records \in -1..MaxRecords, start \in 1..Len(AllFieldTypes),
        n \in 0..MaxFields, seed \in 0..MaxSeed}

InitData ==
    /\ docs = <<PX_open_file(<<NewDoc>>, 1, PlainHeader)[1]>>
    /\ handles = <<R_RegisterCFinalizerEx(R_MakeExternalPtr(1))>>
    /\ last = [Returned("open_file", 0, [kind |-> "extptr", n |-> 1, data |-> <<>>],
                        {}, {"PX_new", "PX_open_file", "px_head"}, FALSE)
                 EXCEPT !.input = [filename |-> "table.db", password |-> NoPassword,
                                   new_ok |-> TRUE, open_status |-> 0,
                                   px_encryption |-> 0]]
    /\ file \in DataTables
    /\ gd = GdIdle
    /\ dec = DecIdle

NextData ==
    \/ GetDataBegin
    \/ GetDataRetrieve
    \/ GetDataCell
    \/ GetDataRecordEnd
    \/ GetDataFinish

SpecData == InitData /\ [][NextData]_vars

(***************************************************************************)
(* px_to_sexp applied once to each raw value of a bounded family.          *)
(***************************************************************************)
DecodeSlack == 2

Around(c) == (c - DecodeSlack)..(c + DecodeSlack)

MsOffsets == {sec * MS_PER_SECOND + ms : sec \in Around(0), ms \in Around(0)}

DecodeValues(px_ftype) ==
    CASE px_ftype = "pxfDate" ->
            {LVal(d) : d \in Around(0) \cup Around(R_EPOCH_OFFSET_DAYS)
                                \cup Around(PARADOX_DATE_UPPER_BOUND)}
      [] px_ftype = "pxfTime" ->
            {LVal(t) : t \in Around(0) \cup Around(3600000)}
      [] px_ftype = "pxfTimestamp" ->
            {DVal(DoubleLimbs(days * MS_PER_SECOND, off)) :
                days \in {-1, 0, 1, R_EPOCH_OFFSET_DAYS, 2 * R_EPOCH_OFFSET_DAYS},
                off \in MsOffsets}
      [] OTHER ->
            {RawValues(px_ftype)[k] : k \in 1..Len(RawValues(px_ftype))}

DecodeInputs(px_ftype) ==
    DecodeValues(px_ftype) \cup {[v EXCEPT !.isnull = TRUE] : v \in DecodeValues(px_ftype)}

InitDecode ==
    /\ docs = <<>>
    /\ handles = <<>>
    /\ last = NoCall
    /\ file = Table(0, 1, 0, 0)
    /\ gd = GdIdle
    /\ dec \in UNION {{[DecIdle EXCEPT !.px_ftype = t, !.val = v] : v \in DecodeInputs(t)} :
                      t \in FieldTypes}

NextDecode == Decode

SpecDecode == InitDecode /\ [][NextDecode]_vars

(***************************************************************************)
(* Properties of the handle lifecycle (specification Spec).                *)
(***************************************************************************)
Closed(h) == IsExtPtr(handles, h) /\ Released(docs, handles[h].doc)

\* C1: a close_file call on a handle that an earlier close_file (or the
\* finalizer) has already released returns normally: it raises no error,
\* calls no backend function and releases nothing.
C1_SecondCloseIsNoop ==
    [][ \A h \in DOMAIN handles :
          (Closed(h) /\ last'.op = "close_file" /\ last'.arg = h)
             => (~last'.raised /\ last'.calls = {} /\ docs' = docs) ]_vars

\* C1, the part the code keeps: the second close_file releases nothing.
C1_SecondCloseReached ==
    /\ last.op = "close_file"
    /\ last.raised
    /\ last.err = E_CLOSED
    /\ Closed(last.arg)
    /\ docs[handles[last.arg].doc].deletes = 1

\* C2: the document of an opened handle is deleted at most once, it is
\* deleted exactly when the handle's address has been cleared, and once the
\* finalizer has run it has been deleted exactly once.
C2_DeletedExactlyOnce ==
    /\ \A d \in DOMAIN docs : docs[d].deletes <= 1
    /\ \A h \in DOMAIN handles :
          /\ handles[h].finalizer
          /\ IF handles[h].addr = NULL
             THEN docs[handles[h].doc].deletes = 1
             ELSE handles[h].addr = handles[h].doc /\ docs[handles[h].doc].deletes = 0
          /\ handles[h].finalized => docs[handles[h].doc].deletes = 1
    /\ last.op \in {"close_file", "finalizer"} /\ "PX_delete" \in last.calls
          => ~last.uaf

\* C2 witness: the finalizer ran on a handle that close_file had released.
C2_FinalizerAfterClose ==
    /\ last.op = "finalizer"
    /\ last.calls = {}
    /\ handles[last.arg].finalized
    /\ docs[handles[last.arg].doc].deletes = 1

\* C3: a get_codepage, get_metadata, get_data or set_blob_file call on a
\* handle that has been released raises the closed-or-invalid error, calls
\* no backend function and does not touch the released document.
C3_ClosedHandleRejected ==
    [][ \A h \in DOMAIN handles :
          ( /\ Closed(h)
            /\ last'.arg = h
            /\ last'.op \in {"get_codepage", "get_metadata", "get_data", "set_blob_file"} )
          => ( /\ last'.raised
               /\ last'.err = E_CLOSED
               /\ last'.calls = {}
               /\ ~last'.uaf
               /\ gd'.pc \notin {"record", "cell"}
               /\ docs' = docs ) ]_vars

\* C3 witness: get_data was rejected on a handle the finalizer released.
C3_RejectedAfterFinalizer ==
    /\ last.op = "get_data"
    /\ last.raised
    /\ last.err = E_CLOSED
    /\ Closed(last.arg)
    /\ handles[last.arg].finalized

\* C4: when the backend opened a file whose header encryption value is not
\* zero, open_file raises an authentication error if no password was given
\* or the password's checksum differs from that value, having closed and
\* deleted the document and made no handle; it returns a live handle when
\* the checksum equals the value.
C4_Authentication ==
    ( /\ last.op = "open_file"
      /\ last.input.filename # NA /\ last.input.password # NA
      /\ last.input.new_ok /\ last.input.open_status = 0
      /\ last.input.px_encryption # 0 )
    => LET pxdoc == Len(docs)
           password == last.input.password
       IN  IF \/ password = NoPassword
              \/ px_passwd_checksum(password) # last.input.px_encryption
           THEN /\ last.raised
                /\ last.err = (IF password = NoPassword THEN E_PROTECTED ELSE E_INCORRECT)
                /\ docs[pxdoc].state = "closed"
                /\ docs[pxdoc].deletes = 1
                /\ \A h \in DOMAIN handles : handles[h].doc # pxdoc
           ELSE /\ ~last.raised
                /\ last.value.kind = "extptr"
                /\ handles[last.value.n].addr = pxdoc
                /\ docs[pxdoc].state = "open"
                /\ docs[pxdoc].deletes = 0

\* C4 witness: a wrong password was rejected and the document torn down.
C4_WrongPasswordRejected ==
    /\ last.op = "open_file"
    /\ last.err = E_INCORRECT
    /\ last.input.password = "pw2"
    /\ docs[Len(docs)].deletes = 1

\* C5: with well-formed arguments and a document from PX_new, a failing
\* PX_open_file makes open_file return NULL with a warning and without an
\* error, the document deleted, no handle made and the header never read,
\* whatever the file's encryption value and the password.
C5_OpenFailure ==
    ( /\ last.op = "open_file"
      /\ last.input.filename # NA /\ last.input.password # NA
      /\ last.input.new_ok /\ last.input.open_status # 0 )
    => LET pxdoc == Len(docs)
       IN  /\ ~last.raised
           /\ last.value = NilResult
           /\ W_OPEN \in last.warns
           /\ docs[pxdoc].deletes = 1
           /\ LiveDocs(docs) = {handles[h].addr : h \in DOMAIN handles} \ {NULL}
           /\ \A h \in DOMAIN handles : handles[h].doc # pxdoc
           /\ "px_head" \notin last.calls /\ "PX_close" \notin last.calls

\* C5 witness: the open failed on an encrypted file although no password was given.
C5_OpenFailureBeforeAuth ==
    /\ last.op = "open_file"
    /\ last.input.open_status # 0
    /\ last.input.px_encryption # 0
    /\ last.input.password = NoPassword
    /\ last.value = NilResult
    /\ docs[Len(docs)].deletes = 1

(***************************************************************************)
(* Properties of get_data (specification SpecData) and of the value        *)
(* decoder (specification SpecDecode).                                     *)
(***************************************************************************)
\* The column categories as the specification lists them.
Category(px_ftype) ==
    CASE px_ftype \in {"pxfShort", "pxfLong", "pxfAutoInc"} -> "INTSXP"
      [] px_ftype \in {"pxfNumber", "pxfCurrency", "pxfDate", "pxfTime", "pxfTimestamp"} ->
            "REALSXP"
      [] px_ftype = "pxfLogical" -> "LGLSXP"
      [] px_ftype \in {"pxfBytes", "pxfOLE", "pxfGraphic", "pxfBLOb"} -> "VECSXP"
      [] px_ftype \in {"pxfAlpha", "pxfBCD", "pxfMemoBLOb", "pxfFmtMemoBLOb",
                       "pxfUnrecognized"} -> "STRSXP"

MissingMarker(category) ==
    CASE category = "INTSXP" -> NA_INTEGER
      [] category = "REALSXP" -> NA_REAL
      [] category = "LGLSXP" -> NA_LOGICAL
      [] category = "STRSXP" -> NA_STRING
      [] category = "VECSXP" -> R_NilValue

\* The value get_data decoded and stored last, if any.
CellDone == gd.pc = "cell" /\ gd.j > 0

\* C6: when the raw value's null flag is set, px_to_sexp returns R_NilValue
\* whatever the field type, and get_data stores the missing-value marker of
\* the column's category at the record's position.
C6_NullFlagAbsent ==
    (CellDone /\ gd.record_values[gd.j].val.isnull)
    => /\ Rf_isNull(gd.r_val)
       /\ gd.data_list[gd.j].cells[gd.i + 1]
             = MissingMarker(Category(file.fields[gd.j].px_ftype))

\* C6 witness: a null-flagged value of an unrecognized type, with a payload,
\* was stored in the second record.
C6_NullOfUnrecognizedStored ==
    /\ CellDone
    /\ gd.i = 1
    /\ file.fields[gd.j].px_ftype = "pxfUnrecognized"
    /\ gd.record_values[gd.j].val.isnull
    /\ ~gd.record_values[gd.j].val.val.null
    /\ gd.data_list[gd.j].cells[gd.i + 1] = NA_STRING

\* C7: a date with the null flag clear decodes to absent exactly when the
\* day count d is <= 0 or > 3000000, and to d - 719163 otherwise.
C7_DateDecoding ==
    (dec.done /\ dec.px_ftype = "pxfDate" /\ ~dec.val.isnull)
    => LET d == dec.val.lval
       IN  /\ Rf_isNull(dec.out.r) <=> (d <= 0 \/ d > 3000000)
           /\ ~Rf_isNull(dec.out.r) => dec.out.r = ScalarReal(Double(d - 719163))
           /\ d = 719163 => dec.out.r = ScalarReal(Double(0))

\* C7 witness: the largest accepted day count was decoded to a value.
C7_UpperBoundDecoded ==
    /\ dec.done
    /\ dec.px_ftype = "pxfDate"
    /\ ~dec.val.isnull
    /\ dec.val.lval = 3000000
    /\ dec.out.r = ScalarReal(Double(2280837))

\* Seconds to milliseconds and a shift by whole days, on the limbs.
TimesThousand(x) ==
    LET w == x.lo * 1000 + x.frac
    IN  [hi |-> x.hi * 1000 + (w \div 86400), lo |-> w % 86400, frac |-> 0]

PlusDays(x, n) == [x EXCEPT !.hi = @ + n]

\* C8: a timestamp with the null flag clear decodes to absent when the raw
\* millisecond value t is 0 or negative, and otherwise to the seconds s with
\* (s + 719163 * 86400) * 1000 = t; t = 719163 * 86400 * 1000 gives second 0.
C8_TimestampDecoding ==
    (dec.done /\ dec.px_ftype = "pxfTimestamp" /\ ~dec.val.isnull)
    => LET t == dec.val.dval
           zero == t.hi = 0 /\ t.lo = 0 /\ t.frac = 0
       IN  IF zero \/ t.hi < 0
           THEN Rf_isNull(dec.out.r)
           ELSE /\ dec.out.r.t = "REALSXP"
                /\ ~dec.out.r.na
                /\ TimesThousand(PlusDays(dec.out.r.r, 719163)) = t
                /\ (t.hi = 719163000 /\ t.lo = 0) => dec.out.r = ScalarReal(Double(0))

\* C8 witness: one millisecond before the 1970 epoch was decoded to -0.001 s.
C8_BeforeEpochDecoded ==
    /\ dec.done
    /\ dec.px_ftype = "pxfTimestamp"
    /\ ~dec.val.isnull
    /\ dec.val.dval = [hi |-> 719162999, lo |-> 86399, frac |-> 0]
    /\ dec.out.r = ScalarReal([hi |-> -1, lo |-> 86399, frac |-> 999])

ColumnsAsDeclared(columns) ==
    /\ Len(columns) = Len(file.fields)
    /\ \A j \in 1..Len(columns) :
          /\ columns[j].t = Category(file.fields[j].px_ftype)
          /\ Len(columns[j].cells) = file.num_records

\* C9: on a live handle with a positive record count, a get_data call that
\* returns yields a dataset of exactly field_count columns in declaration
\* order, each named after its field, of length record_count and of the
\* category of its field's type code; the columns have that category from
\* their allocation on, through every step of the fill.
C9_ColumnsAsDeclared ==
    /\ gd.pc \in {"record", "cell"} => ColumnsAsDeclared(gd.data_list)
    /\ ( /\ last.op = "get_data" /\ gd.pc = "idle" /\ ~last.raised
         /\ check_pxdoc_ptr(handles, last.arg) /\ file.num_records > 0 )
       => /\ last.value.kind = "dataset"
          /\ ColumnsAsDeclared(last.value.data.columns)
          /\ Len(last.value.data.names) = Len(file.fields)
          /\ \A j \in 1..Len(file.fields) :
                last.value.data.names[j] = file.fields[j].px_fname

\* C9 witness: a dataset of two records with an inline-binary column and an
\* unrecognized-type column was returned.
C9_DatasetReturned ==
    /\ last.op = "get_data"
    /\ last.value.kind = "dataset"
    /\ file.num_records = 2
    /\ Len(file.fields) = 2
    /\ file.fields[1].px_ftype = "pxfBytes"
    /\ file.fields[2].px_ftype = "pxfUnrecognized"
    /\ last.value.data.columns[1].t = "VECSXP"
    /\ last.value.data.columns[2].t = "STRSXP"

\* C10: every value get_data has decoded whose raw value carries a backend
\* buffer has had that buffer released exactly once by the end of its
\* decode step.
C10_BufferReleasedOnce ==
    \A k \in DOMAIN gd.record_values :
        (gd.record_values[k].decoded /\ ~gd.record_values[k].val.val.null)
           => gd.record_values[k].frees = 1

(***************************************************************************)
(* Properties of get_data on unrecognized type codes, failing records and  *)
(* binary columns (specification SpecData).                                *)
(***************************************************************************)
Unrecognized(px_ftype) == px_ftype = "pxfUnrecognized"

UnrecognizedFields == {j \in DOMAIN file.fields : Unrecognized(file.fields[j].px_ftype)}

\* The element the fill leaves at record i of field j's column.
FilledCell(i, j) ==
    LET px_ftype == file.fields[j].px_ftype
    IN  stored_element(Category(px_ftype),
                       px_to_sexp(RawValue(file.seed, i, j - 1, px_ftype), px_ftype).r)

DatasetReturned == last.op = "get_data" /\ ~last.raised /\ last.value.kind = "dataset"

\* The parts of C11 other than the warning: an unrecognized field never makes
\* get_data raise, its column is a text column whose every value is absent,
\* and the columns of the other fields are returned filled.
UnrecognizedTolerated ==
    /\ gd.pc = "raised" => ~Unrecognized(file.fields[gd.j + 1].px_ftype)
    /\ gd.pc \in {"record", "cell"} =>
          \A j \in UnrecognizedFields : gd.data_list[j].t = "STRSXP"
    /\ CellDone /\ gd.j \in UnrecognizedFields => Rf_isNull(gd.r_val)
    /\ (DatasetReturned /\ UnrecognizedFields # {}) =>
          \A j \in DOMAIN file.fields, i \in 0..(file.num_records - 1) :
             LET column == last.value.data.columns[j]
             IN  /\ column.cells[i + 1] = FilledCell(i, j)
                 /\ j \in UnrecognizedFields =>
                       column.t = "STRSXP" /\ column.cells[i + 1] = NA_STRING

\* C11: a field with an unrecognized type code never makes get_data raise,
\* is mapped to a text column whose every value is absent, leaves the other
\* fields' columns returned filled, and every get_data call that returns a
\* dataset containing such a field has emitted the unhandled-type warning,
\* whatever the null flags of the field's values.
C11_UnrecognizedWarned ==
    /\ UnrecognizedTolerated
    /\ (DatasetReturned /\ UnrecognizedFields # {}) => W_FTYPE \in last.warns

\* C11, the part the code keeps: a dataset of two records with an
\* unrecognized field was returned with the warning, that field's column all
\* absent and another field's column holding a value.
C11_WarnedAndFilled ==
    /\ DatasetReturned
    /\ file.num_records = 2
    /\ W_FTYPE \in last.warns
    /\ \E j \in UnrecognizedFields, k \in DOMAIN file.fields \ UnrecognizedFields :
          /\ \A i \in 1..2 : last.value.data.columns[j].cells[i] = NA_STRING
          /\ \E i \in 1..2 : ~last.value.data.columns[k].cells[i].na
                             /\ ~Rf_isNull(last.value.data.columns[k].cells[i])

RetrievalFailed == last.op = "get_data" /\ last.err = E_RECORD

\* While the failed call is the last one: it raised, returned nothing, and
\* the records requested are exactly those up to the reported one.
NothingAfterFailure ==
    RetrievalFailed =>
        /\ last.raised
        /\ last.value = NoValue
        /\ last.idx \in 1..file.num_records
        /\ last.requested = 0..(last.idx - 1)
        /\ gd = GdIdle

\* The step in which PX_retrieve_record fails for the record at position gd.i
RetrievalFails ==
    /\ gd.pc = "record"
    /\ "PX_retrieve_record" \in last'.calls
    /\ last'.requested # last.requested
    /\ gd'.pc # "cell"

\* C12: when PX_retrieve_record fails for the record at 0-based position i,
\* get_data raises the record error reporting i + 1, returns no dataset (the
\* columns filled from records 0..i-1 are dropped with the call), and has
\* requested exactly the records 0..i: none after i is ever requested.
C12_RetrievalFailureFatal ==
    /\ []NothingAfterFailure
    /\ [][ RetrievalFails
           => ( /\ last'.raised
                /\ last'.err = E_RECORD
                /\ last'.idx = gd.i + 1
                /\ last'.value = NoValue
                /\ last'.requested = 0..gd.i
                /\ gd'.pc = "idle"
                /\ gd'.data_list = <<>> ) ]_vars

\* C12 witness: the second record failed after the first one had been filled.
C12_SecondRecordFailed ==
    /\ RetrievalFailed
    /\ last.raised
    /\ last.idx = 2
    /\ last.requested = {0, 1}
    /\ "free" \in last.calls
    /\ last.value = NoValue

\* An element of a binary-list column: absent or a byte buffer.
AbsentOrBuffer(e) == Rf_isNull(e) \/ (e.t = "RAWSXP" /\ ~e.na)

BinaryElements(columns) ==
    \A j \in DOMAIN columns :
        columns[j].t = "VECSXP" =>
            \A k \in DOMAIN columns[j].cells : AbsentOrBuffer(columns[j].cells[k])

\* C13: every element get_data stores in a binary-list column, during the
\* fill and in the returned dataset, is absent or a byte buffer; a non-null
\* inline-binary value decodes to the byte buffer of its explicit length,
\* as a non-empty BLOB, graphic or OLE value does.
C13_BinaryColumnsHoldBuffers ==
    /\ gd.pc \in {"record", "cell"} => BinaryElements(gd.data_list)
    /\ DatasetReturned => BinaryElements(last.value.data.columns)
    /\ \A k \in DOMAIN gd.record_values :
          LET val == gd.record_values[k].val
              px_ftype == file.fields[k].px_ftype
          IN  ( /\ gd.record_values[k].decoded
                /\ ~val.isnull
                /\ \/ px_ftype = "pxfBytes"
                   \/ px_ftype \in {"pxfBLOb", "pxfGraphic", "pxfOLE"} /\ val.len > 0 )
              => ( /\ gd.pc # "raised"
                   /\ gd.data_list[k].cells[gd.i + 1]
                         = RawSxp(SubSeq(val.val.bytes, 1, val.len)) )

\* C13, what the code does instead: the returned dataset holds, in the
\* binary-list column of an inline-binary field, a CHARSXP made of the
\* value's bytes.
C13_BytesReturnedAsText ==
    /\ DatasetReturned
    /\ \E j \in DOMAIN file.fields, i \in 1..file.num_records :
          /\ file.fields[j].px_ftype = "pxfBytes"
          /\ last.value.data.columns[j].t = "VECSXP"
          /\ last.value.data.columns[j].cells[i] = CharSxp(<<1, 2>>)

(***************************************************************************)
(* The frame of the reading operations (specification Spec).               *)
(***************************************************************************)
ReadOps == {"get_metadata", "get_codepage", "get_data", "set_blob_file"}

\* A handle is live while it holds the address of a document not yet deleted.
Live(hs, ds, h) ==
    /\ IsExtPtr(hs, h)
    /\ hs[h].addr # NULL
    /\ ValidDoc(ds, hs[h].addr)
    /\ ds[hs[h].addr].deletes = 0

\* C14: every step of get_metadata, get_codepage, get_data (returning a
\* dataset, returning NULL for no records, or raising) and set_blob_file
\* (accepted or rejected by the backend) leaves every handle and every
\* document as it was, so a handle live before the call is live after it;
\* a handle goes from live to closed only in a close_file or finalizer step
\* on that handle.
C14_ReadOpsKeepHandles ==
    [][ /\ last'.op \in ReadOps =>
            /\ handles' = handles
            /\ docs' = docs
            /\ \A h \in DOMAIN handles : Live(handles, docs, h) => Live(handles', docs', h)
        /\ \A h \in DOMAIN handles :
              (Live(handles, docs, h) /\ ~Live(handles', docs', h))
                 => (last'.op \in {"close_file", "finalizer"} /\ last'.arg = h) ]_vars

\* C14 witness: get_data raised on a record retrieval failure and its handle
\* is still live, beside another handle that close_file has released.
C14_LiveAfterFailedGetData ==
    /\ RetrievalFailed
    /\ last.raised
    /\ Live(handles, docs, last.arg)
    /\ \E h \in DOMAIN handles : Closed(h)

====
